---- MODULE Spec2Model ----
(***************************************************************************)
(* Model of the benchmark HTTP service of src/api/rust/src/main.rs: the    *)
(* items table kept by SQLite, startup seeding (init_db) and the CRUD      *)
(* handlers.  Every `.await` on a storage call is one atomic step of the   *)
(* handler that makes it; handlers of different requests interleave        *)
(* between their storage calls.                                            *)
(***************************************************************************)
EXTENDS Integers, Sequences, FiniteSets, TLC

\* ------------------------------------------------------------------ bounds
\* Number of HTTP requests the model lets arrive.
MaxRequests == 2
\* The clock (CURRENT_TIMESTAMP, in seconds) runs from 0 to MaxClock.
MaxClock == 1
\* Number of times the process is started again (SpecStartup).
MaxRestarts == 2
\* Requests name the first sample row and the ids above the sample rows, up
\* to MaxItemId.
MaxItemId == 4
\* cpu_stress is followed for at most MaxLoopSteps turns of its loop.
MaxLoopSteps == 3
\* memory_stress is asked for 0..MaxSizeMb megabytes.
MaxSizeMb == 101
\* db_benchmark_select is asked for 0..MaxCount rows.
MaxCount == 5

VARIABLES
    rows,      \* table items: id -> row
    seq,       \* sqlite_sequence entry of items (AUTOINCREMENT high-water mark)
    now,       \* wall clock, in seconds
    srv,       \* the process: position in main/init_db
    restarts,  \* number of restarts so far
    req        \* the requests: handler position, inputs, locals, response

vars == <<rows, seq, now, srv, restarts, req>>

Procs == 1..MaxRequests
ItemIds == {1} \cup {k \in 1..MaxItemId : k > 3}

\* ------------------------------------------------------------ data model
\* Option<T>: None is <<>>, Some(x) is <<x>>.
None == <<>>
Some(x) == <<x>>

\* struct Item (the request payload).  price is f64; the model counts cents.
Item(name, description, price) ==
    [name |-> name, description |-> description, price |-> price]

\* Payloads the clients send: a valid one, one with an empty name, one with a
\* negative price.
Payloads ==
    { Item("Desk", Some("Oak desk"), 0),
      Item("", Some("Oak desk"), 15000),
      Item("Pen", None, -1) }

NoPayload == Item("", None, 0)

\* The sample rows of init_db.
sample_items ==
    << Item("Laptop", Some("High-performance laptop"), 99999),
       Item("Mouse", Some("Wireless mouse"), 2999),
       Item("Keyboard", Some("Mechanical keyboard"), 7999) >>

\* struct ItemResponse, read from a row of the table.  `ver` is not a column:
\* it counts the UPDATE statements that have written the row, so that a read
\* can be placed before or after a write.
ItemResponse(r) ==
    [id |-> r.id, name |-> r.name, description |-> r.description,
     price |-> r.price, created_at |-> r.created_at, ver |-> r.ver]

\* The five columns of a row, as the client sees them.
Columns(r) ==
    [id |-> r.id, name |-> r.name, description |-> r.description,
     price |-> r.price, created_at |-> r.created_at]

\* ------------------------------------------------------------ the storage
Max(a, b) == IF a >= b THEN a ELSE b

RECURSIVE MaxOf(_)
MaxOf(S) == IF S = {} THEN 0
            ELSE LET x == CHOOSE y \in S : TRUE IN Max(x, MaxOf(S \ {x}))

\* (mutant) the new id is the largest id so far, not one more.
NextRowIdNoIncrement(t, s) == Max(s, MaxOf(DOMAIN t))

\* (mutant) without AUTOINCREMENT: one more than the largest id in the table.
NextRowIdOfTable(t, s) == MaxOf(DOMAIN t) + 1

\* id INTEGER PRIMARY KEY AUTOINCREMENT: one more than the largest id the
\* table has ever held.
NextRowId(t, s) == Max(s, MaxOf(DOMAIN t)) + 1

\* INSERT INTO items (name, description, price) VALUES (?, ?, ?):
\* created_at takes DEFAULT CURRENT_TIMESTAMP.
InsertRow(t, s, item, clock) ==
    LET k == NextRowId(t, s) IN
    [i \in DOMAIN t \cup {k} |->
        IF i = k
        THEN [id |-> k, name |-> item.name, description |-> item.description,
              price |-> item.price, created_at |-> clock, ver |-> 0]
        ELSE t[i]]

\* (mutant) the UPDATE has lost its WHERE clause.
UpdateRowNoWhere(t, k, item) ==
    [i \in DOMAIN t |->
        [t[i] EXCEPT !.name = item.name, !.description = item.description,
                     !.price = item.price, !.ver = @ + 1]]

\* UPDATE items SET name = ?, description = ?, price = ? WHERE id = ?
UpdateRow(t, k, item) ==
    [i \in DOMAIN t |->
        IF i = k
        THEN [t[i] EXCEPT !.name = item.name, !.description = item.description,
                          !.price = item.price, !.ver = @ + 1]
        ELSE t[i]]

\* (mutant) the DELETE removes nothing.
DeleteRowNone(t, k) == t

\* DELETE FROM items WHERE id = ?
DeleteRow(t, k) == [i \in DOMAIN t \ {k} |-> t[i]]

\* SELECT ... FROM items ORDER BY id
RECURSIVE OrderById(_, _)
OrderById(t, S) ==
    IF S = {} THEN <<>>
    ELSE LET k == CHOOSE x \in S : \A y \in S : x <= y
         IN <<ItemResponse(t[k])>> \o OrderById(t, S \ {k})

\* (mutant) the rows come back with the largest id first.
SelectAllDescending(t) ==
    LET o == OrderById(t, DOMAIN t)
    IN [i \in 1..Len(o) |-> o[Len(o) + 1 - i]]

SelectAll(t) == OrderById(t, DOMAIN t)

\* SELECT ... FROM items WHERE id = ?
SelectById(t, k) == IF k \in DOMAIN t THEN <<ItemResponse(t[k])>> ELSE <<>>

\* ------------------------------------------------------------------- u64
\* A u64 is kept as Limbs digits of radix Radix, least significant first, so
\* that wrapping_add and wrapping_mul work modulo 2^64.
Radix == 256
Limbs == 8

RECURSIVE Digits(_, _)
Digits(n, len) ==
    IF len = 0 THEN <<>> ELSE <<n % Radix>> \o Digits(n \div Radix, len - 1)

\* `n as u64`, for a number the model checker can hold.
U64(n) == Digits(n, Limbs)

Zero == U64(0)
\* u64::MAX
AllOnes == [k \in 1..Limbs |-> Radix - 1]

RECURSIVE AddCarry(_, _, _, _)
AddCarry(a, b, k, c) ==
    IF k > Len(a) THEN <<>>
    ELSE LET d == a[k] + b[k] + c
         IN <<d % Radix>> \o AddCarry(a, b, k + 1, d \div Radix)

\* a + b modulo Radix^Len(a)
AddLimbs(a, b) == AddCarry(a, b, 1, 0)

RECURSIVE ColumnSum(_, _, _, _)
ColumnSum(a, b, k, i) ==
    IF i > k THEN 0 ELSE a[i] * b[k + 1 - i] + ColumnSum(a, b, k, i + 1)

RECURSIVE MulCarry(_, _, _, _)
MulCarry(a, b, k, c) ==
    IF k > Len(a) THEN <<>>
    ELSE LET d == ColumnSum(a, b, k, 1) + c
         IN <<d % Radix>> \o MulCarry(a, b, k + 1, d \div Radix)

\* a * b modulo Radix^Len(a)
MulLimbs(a, b) == MulCarry(a, b, 1, 0)

\* a with zero digits added on top, to len digits.
Widen(a, len) == [k \in 1..len |-> IF k <= Len(a) THEN a[k] ELSE 0]

\* (mutant) the product saturates at u64::MAX instead of wrapping.
saturating_mul(a, b) ==
    LET w == MulLimbs(Widen(a, 2 * Limbs), Widen(b, 2 * Limbs))
    IN IF \A k \in (Limbs + 1)..(2 * Limbs) : w[k] = 0
       THEN SubSeq(w, 1, Limbs) ELSE AllOnes

\* u64::wrapping_mul
wrapping_mul(a, b) == MulLimbs(a, b)

\* (mutant) the sum saturates at u64::MAX instead of wrapping.
saturating_add(a, b) ==
    LET w == AddLimbs(Widen(a, Limbs + 1), Widen(b, Limbs + 1))
    IN IF w[Limbs + 1] = 0 THEN SubSeq(w, 1, Limbs) ELSE AllOnes

\* u64::wrapping_add
wrapping_add(a, b) == AddLimbs(a, b)

\* a < b, for numbers of the same length (the test of `for i in 0..iterations`).
RECURSIVE LessFrom(_, _, _)
LessFrom(a, b, k) ==
    IF k = 0 THEN FALSE
    ELSE IF a[k] # b[k] THEN a[k] < b[k]
    ELSE LessFrom(a, b, k - 1)

Less(a, b) == LessFrom(a, b, Len(a))

\* --------------------------------------------------------------- requests
OK == 200
BAD_REQUEST == 400
NOT_FOUND == 404
INTERNAL_SERVER_ERROR == 500

\* A request slot.  pc is the handler's position; item_id and payload are the
\* handler's inputs (item_id is also create_item's local of that name);
\* status and body are the response, message the id named in delete_item's
\* message.  calls counts the storage calls the handler has made, fault
\* records that one of them failed, wrote is the version its UPDATE gave the
\* row (0 when it changed no row).
\* arg is the input of the other handlers (a path parameter or the echo
\* payload) and json their response body; loop holds cpu_stress's locals i
\* and result, held the bytes of memory_stress's buffer while it is allocated;
\* start is the middleware's Instant and x_process_time the values the
\* response carries under that header name.
NoJson == [empty |-> TRUE]

IdleReq ==
    [pc |-> "idle", kind |-> "none", item_id |-> 0, payload |-> NoPayload,
     status |-> 0, body |-> <<>>, message |-> 0,
     calls |-> 0, fault |-> FALSE, wrote |-> 0,
     arg |-> 0, json |-> NoJson, loop |-> [i |-> Zero, result |-> Zero],
     held |-> 0, start |-> 0, x_process_time |-> <<>>]

Respond(r, status, body) ==
    [r EXCEPT !.pc = "done", !.status = status, !.body = body]

\* One storage call made (and whether it failed).
Called(r, ok) == [r EXCEPT !.calls = @ + 1, !.fault = @ \/ ~ok]

Serving == srv.pc = "serving"

\* ----------------------------------------------------------------- Init
\* The process starts for the first time: benchmark.db does not exist yet.
Init ==
    /\ rows = <<>>
    /\ seq = 0
    /\ now = 0
    /\ srv = [pc |-> "init_count", i |-> 0]
    /\ restarts = 0
    /\ req = [p \in Procs |-> IdleReq]

\* ------------------------------------------------------- init_db (startup)
\* (mutant) the sample rows are inserted whatever the count is.
InitCountAlwaysSeeds ==
    /\ srv.pc = "init_count"
    /\ \E ok \in BOOLEAN :
        srv' = IF ~ok THEN [pc |-> "failed", i |-> 0]
               ELSE [pc |-> "seed", i |-> 1]
    /\ UNCHANGED <<rows, seq, now, restarts, req>>

\* SELECT COUNT(*) FROM items; `if count == 0` starts the seeding loop.
InitCount ==
    /\ srv.pc = "init_count"
    /\ \E ok \in BOOLEAN :
        srv' = IF ~ok THEN [pc |-> "failed", i |-> 0]
               ELSE IF Cardinality(DOMAIN rows) = 0 THEN [pc |-> "seed", i |-> 1]
               ELSE [pc |-> "serving", i |-> 0]
    /\ UNCHANGED <<rows, seq, now, restarts, req>>

\* One turn of `for (name, description, price) in sample_items`.
SeedInsert ==
    /\ srv.pc = "seed"
    /\ \E ok \in BOOLEAN :
        IF ok
        THEN /\ rows' = InsertRow(rows, seq, sample_items[srv.i], now)
             /\ seq' = NextRowId(rows, seq)
             /\ srv' = IF srv.i = Len(sample_items)
                       THEN [pc |-> "serving", i |-> 0]
                       ELSE [srv EXCEPT !.i = @ + 1]
        ELSE /\ srv' = [pc |-> "failed", i |-> 0]
             /\ UNCHANGED <<rows, seq>>
    /\ UNCHANGED <<now, restarts, req>>

\* The process is stopped and started again: the handlers in flight are
\* dropped, the database file stays, main calls init_db.
Restart ==
    /\ srv.pc \in {"serving", "failed"}
    /\ restarts < MaxRestarts
    /\ restarts' = restarts + 1
    /\ srv' = [pc |-> "init_count", i |-> 0]
    /\ req' = [p \in Procs |->
                 IF req[p].pc \in {"idle", "done"} THEN req[p]
                 ELSE [req[p] EXCEPT !.pc = "dropped"]]
    /\ UNCHANGED <<rows, seq, now>>

\* Time passes.
Tick ==
    /\ now < MaxClock
    /\ now' = now + 1
    /\ UNCHANGED <<rows, seq, srv, restarts, req>>

\* ---------------------------------------------------------------- routing
\* The router hands a request to its handler.
Arrive(p, kind, id, payload) ==
    /\ Serving
    /\ req[p].pc = "idle"
    /\ IF p = 1 THEN TRUE ELSE req[p - 1].pc # "idle"
    /\ req' = [req EXCEPT ![p] =
                 [IdleReq EXCEPT !.pc = kind, !.kind = kind,
                                 !.item_id = id, !.payload = payload]]
    /\ UNCHANGED <<rows, seq, now, srv, restarts>>

\* ---------------------------------------------------------------- handlers
get_all_items(p) ==
    /\ Serving
    /\ req[p].pc = "get_all_items"
    /\ \E ok \in BOOLEAN :
        req' = [req EXCEPT ![p] =
                  IF ok THEN Respond(Called(@, ok), OK, SelectAll(rows))
                  ELSE Respond(Called(@, ok), INTERNAL_SERVER_ERROR, <<>>)]
    /\ UNCHANGED <<rows, seq, now, srv, restarts>>

\* fetch_one fails when the call fails and when no row is returned; map_err
\* turns every failure into NOT_FOUND.
get_item(p) ==
    /\ Serving
    /\ req[p].pc = "get_item"
    /\ \E ok \in BOOLEAN :
        LET found == SelectById(rows, req[p].item_id) IN
        req' = [req EXCEPT ![p] =
                  IF ok /\ found # <<>> THEN Respond(Called(@, ok), OK, found)
                  ELSE Respond(Called(@, ok), NOT_FOUND, <<>>)]
    /\ UNCHANGED <<rows, seq, now, srv, restarts>>

\* (mutants) one half of the validation is missing.
InvalidNameOnly(payload) == payload.name = ""
InvalidPriceOnly(payload) == payload.price < 0

\* payload.name.is_empty() || payload.price < 0.0
Invalid(payload) == payload.name = "" \/ payload.price < 0

\* create_item up to the INSERT and last_insert_rowid().
create_item_insert(p) ==
    /\ Serving
    /\ req[p].pc = "create_item"
    /\ IF Invalid(req[p].payload)
       THEN /\ req' = [req EXCEPT ![p] = Respond(@, BAD_REQUEST, <<>>)]
            /\ UNCHANGED <<rows, seq>>
       ELSE \E ok \in BOOLEAN :
            IF ok
            THEN /\ rows' = InsertRow(rows, seq, req[p].payload, now)
                 /\ seq' = NextRowId(rows, seq)
                 /\ req' = [req EXCEPT ![p] =
                              [Called(@, ok) EXCEPT !.pc = "create_item_select",
                                                    !.item_id = NextRowId(rows, seq)]]
            ELSE /\ req' = [req EXCEPT ![p] =
                              Respond(Called(@, ok), INTERNAL_SERVER_ERROR, <<>>)]
                 /\ UNCHANGED <<rows, seq>>
    /\ UNCHANGED <<now, srv, restarts>>

\* (mutant) the response's created_at is the time of the response, not the
\* stored one.
create_item_select_stamped(p) ==
    /\ Serving
    /\ req[p].pc = "create_item_select"
    /\ \E ok \in BOOLEAN :
        LET found == SelectById(rows, req[p].item_id) IN
        req' = [req EXCEPT ![p] =
                  IF ok /\ found # <<>>
                  THEN Respond(Called(@, ok), OK,
                               <<[found[1] EXCEPT !.created_at = now]>>)
                  ELSE Respond(Called(@, ok), INTERNAL_SERVER_ERROR, <<>>)]
    /\ UNCHANGED <<rows, seq, now, srv, restarts>>

\* create_item's SELECT of the row it inserted.
create_item_select(p) ==
    /\ Serving
    /\ req[p].pc = "create_item_select"
    /\ \E ok \in BOOLEAN :
        LET found == SelectById(rows, req[p].item_id) IN
        req' = [req EXCEPT ![p] =
                  IF ok /\ found # <<>> THEN Respond(Called(@, ok), OK, found)
                  ELSE Respond(Called(@, ok), INTERNAL_SERVER_ERROR, <<>>)]
    /\ UNCHANGED <<rows, seq, now, srv, restarts>>

\* (mutant) the existence check is skipped.
update_item_check_skipped(p) ==
    /\ Serving
    /\ req[p].pc = "update_item"
    /\ IF Invalid(req[p].payload)
       THEN req' = [req EXCEPT ![p] = Respond(@, BAD_REQUEST, <<>>)]
       ELSE req' = [req EXCEPT ![p] = [@ EXCEPT !.pc = "update_item_write"]]
    /\ UNCHANGED <<rows, seq, now, srv, restarts>>

\* update_item up to the existence check.
update_item_check(p) ==
    /\ Serving
    /\ req[p].pc = "update_item"
    /\ IF Invalid(req[p].payload)
       THEN req' = [req EXCEPT ![p] = Respond(@, BAD_REQUEST, <<>>)]
       ELSE \E ok \in BOOLEAN :
            LET existing == IF req[p].item_id \in DOMAIN rows
                            THEN Some(req[p].item_id) ELSE None
            IN req' = [req EXCEPT ![p] =
                         IF ~ok THEN Respond(Called(@, ok), INTERNAL_SERVER_ERROR, <<>>)
                         ELSE IF existing = None
                         THEN Respond(Called(@, ok), NOT_FOUND, <<>>)
                         ELSE [Called(@, ok) EXCEPT !.pc = "update_item_write"]]
    /\ UNCHANGED <<rows, seq, now, srv, restarts>>

\* (mutant) the UPDATE is started but not awaited: the handler goes on to
\* its SELECT whether or not the statement has run.
update_item_write_detached(p) ==
    /\ Serving
    /\ req[p].pc = "update_item_write"
    /\ \E ran \in BOOLEAN :
        /\ rows' = IF ran THEN UpdateRow(rows, req[p].item_id, req[p].payload)
                   ELSE rows
        /\ req' = [req EXCEPT ![p] =
                     [Called(@, TRUE) EXCEPT
                        !.pc = "update_item_select",
                        !.wrote = IF req[p].item_id \in DOMAIN rows
                                  THEN rows[req[p].item_id].ver + 1 ELSE 0]]
    /\ UNCHANGED <<seq, now, srv, restarts>>

\* update_item's UPDATE statement.
update_item_write(p) ==
    /\ Serving
    /\ req[p].pc = "update_item_write"
    /\ \E ok \in BOOLEAN :
        IF ok
        THEN /\ rows' = UpdateRow(rows, req[p].item_id, req[p].payload)
             /\ req' = [req EXCEPT ![p] =
                          [Called(@, ok) EXCEPT
                             !.pc = "update_item_select",
                             !.wrote = IF req[p].item_id \in DOMAIN rows
                                       THEN rows[req[p].item_id].ver + 1 ELSE 0]]
        ELSE /\ req' = [req EXCEPT ![p] =
                          Respond(Called(@, ok), INTERNAL_SERVER_ERROR, <<>>)]
             /\ UNCHANGED rows
    /\ UNCHANGED <<seq, now, srv, restarts>>

\* update_item's SELECT of the updated row.
update_item_select(p) ==
    /\ Serving
    /\ req[p].pc = "update_item_select"
    /\ \E ok \in BOOLEAN :
        LET found == SelectById(rows, req[p].item_id) IN
        req' = [req EXCEPT ![p] =
                  IF ok /\ found # <<>> THEN Respond(Called(@, ok), OK, found)
                  ELSE Respond(Called(@, ok), INTERNAL_SERVER_ERROR, <<>>)]
    /\ UNCHANGED <<rows, seq, now, srv, restarts>>

\* delete_item up to the existence check.
delete_item_check(p) ==
    /\ Serving
    /\ req[p].pc = "delete_item"
    /\ \E ok \in BOOLEAN :
        LET existing == IF req[p].item_id \in DOMAIN rows
                        THEN Some(req[p].item_id) ELSE None
        IN req' = [req EXCEPT ![p] =
                     IF ~ok THEN Respond(Called(@, ok), INTERNAL_SERVER_ERROR, <<>>)
                     ELSE IF existing = None
                     THEN Respond(Called(@, ok), NOT_FOUND, <<>>)
                     ELSE [Called(@, ok) EXCEPT !.pc = "delete_item_write"]]
    /\ UNCHANGED <<rows, seq, now, srv, restarts>>

\* delete_item's DELETE statement and its success message.
delete_item_write(p) ==
    /\ Serving
    /\ req[p].pc = "delete_item_write"
    /\ \E ok \in BOOLEAN :
        IF ok
        THEN /\ rows' = DeleteRow(rows, req[p].item_id)
             /\ req' = [req EXCEPT ![p] =
                          [Respond(Called(@, ok), OK, <<>>) EXCEPT
                             !.message = req[p].item_id]]
        ELSE /\ req' = [req EXCEPT ![p] =
                          Respond(Called(@, ok), INTERNAL_SERVER_ERROR, <<>>)]
             /\ UNCHANGED rows
    /\ UNCHANGED <<seq, now, srv, restarts>>

\* ------------------------------------------------------ simple handlers
\* The responses' measured processing_time_ms is left out; timestamp is the
\* clock when the response is built.
read_root(p) ==
    /\ Serving
    /\ req[p].pc = "read_root"
    /\ req' = [req EXCEPT ![p] =
                 [@ EXCEPT !.pc = "done", !.status = OK,
                           !.json = [Hello |-> "World", timestamp |-> now]]]
    /\ UNCHANGED <<rows, seq, now, srv, restarts>>

\* arg is <<item_id, params.get("q")>>.
read_item(p) ==
    /\ Serving
    /\ req[p].pc = "read_item"
    /\ req' = [req EXCEPT ![p] =
                 [@ EXCEPT !.pc = "done", !.status = OK,
                           !.json = [item_id |-> req[p].arg[1],
                                     q |-> req[p].arg[2],
                                     timestamp |-> now]]]
    /\ UNCHANGED <<rows, seq, now, srv, restarts>>

\* (mutant) a failed probe makes the overall status "unhealthy".
health_check_unhealthy(p) ==
    /\ Serving
    /\ req[p].pc = "health_check"
    /\ \E ok \in BOOLEAN :
        req' = [req EXCEPT ![p] =
                  [Called(@, ok) EXCEPT
                     !.pc = "done", !.status = OK,
                     !.json = [status |-> IF ok THEN "healthy" ELSE "unhealthy",
                               timestamp |-> now,
                               database |-> IF ok THEN "connected"
                                            ELSE "disconnected"]]]
    /\ UNCHANGED <<rows, seq, now, srv, restarts>>

\* SELECT 1 is the probe; its outcome only chooses the database field.
health_check(p) ==
    /\ Serving
    /\ req[p].pc = "health_check"
    /\ \E ok \in BOOLEAN :
        req' = [req EXCEPT ![p] =
                  [Called(@, ok) EXCEPT
                     !.pc = "done", !.status = OK,
                     !.json = [status |-> "healthy",
                               timestamp |-> now,
                               database |-> IF ok THEN "connected"
                                            ELSE "disconnected"]]]
    /\ UNCHANGED <<rows, seq, now, srv, restarts>>

\* echo_post and echo_get up to their sleep(..).await.
echo_sleep(p) ==
    /\ Serving
    /\ req[p].pc \in {"echo_post", "echo_get"}
    /\ req' = [req EXCEPT ![p].pc = "echo_sleep"]
    /\ UNCHANGED <<rows, seq, now, srv, restarts>>

\* The sleep is over: echo_post answers with the payload's message and data,
\* echo_get with the message of the path.
echo_wake(p) ==
    /\ Serving
    /\ req[p].pc = "echo_sleep"
    /\ req' = [req EXCEPT ![p] =
                 [@ EXCEPT !.pc = "done", !.status = OK,
                           !.json = IF req[p].kind = "echo_post"
                                    THEN [message |-> req[p].arg[1],
                                          data |-> req[p].arg[2],
                                          timestamp |-> now]
                                    ELSE [message |-> req[p].arg[1],
                                          timestamp |-> now]]]
    /\ UNCHANGED <<rows, seq, now, srv, restarts>>

\* (mutant) the benchmark reports the count it was asked for.
RowsFetchedAsAsked(t, count) == count

\* rows.len() of `SELECT .. FROM items LIMIT count`.
RowsFetched(t, count) ==
    IF count < Cardinality(DOMAIN t) THEN count ELSE Cardinality(DOMAIN t)

db_benchmark_select(p) ==
    /\ Serving
    /\ req[p].pc = "db_benchmark_select"
    /\ \E ok \in BOOLEAN :
        req' = [req EXCEPT ![p] =
                  IF ok
                  THEN [Called(@, ok) EXCEPT
                          !.pc = "done", !.status = OK,
                          !.json = [rows_fetched |-> RowsFetched(rows, req[p].arg),
                                    timestamp |-> now]]
                  ELSE [Called(@, ok) EXCEPT
                          !.pc = "done", !.status = INTERNAL_SERVER_ERROR]]
    /\ UNCHANGED <<rows, seq, now, srv, restarts>>

\* ------------------------------------------------------- stress handlers
\* One turn of cpu_stress's loop, or its response once the range is used up:
\* `for i in 0..iterations { result = result.wrapping_add(i.wrapping_mul(i)) }`.
cpu_stress(p) ==
    /\ Serving
    /\ req[p].pc = "cpu_stress"
    /\ LET i == req[p].loop.i
           result == req[p].loop.result
       IN req' = [req EXCEPT ![p] =
                    IF Less(i, req[p].arg)
                    THEN [@ EXCEPT !.loop =
                            [i |-> AddLimbs(i, U64(1)),
                             result |-> wrapping_add(result, wrapping_mul(i, i))]]
                    ELSE [@ EXCEPT !.pc = "done", !.status = OK,
                                   !.json = [iterations |-> req[p].arg,
                                             result |-> result]]]
    /\ UNCHANGED <<rows, seq, now, srv, restarts>>

\* (mutant) the limit of memory_stress is taken one megabyte too low.
TooLargeFrom100(size_mb) == size_mb >= 100

\* `if size_mb > 100`
TooLarge(size_mb) == size_mb > 100

\* memory_stress up to `let data = vec![0u8; size_bytes]`: the request is
\* refused, or the buffer is allocated.
memory_stress_alloc(p) ==
    /\ Serving
    /\ req[p].pc = "memory_stress"
    /\ req' = [req EXCEPT ![p] =
                 IF TooLarge(req[p].arg)
                 THEN [@ EXCEPT !.pc = "done", !.status = BAD_REQUEST]
                 ELSE [@ EXCEPT !.pc = "memory_stress_allocated",
                                !.held = req[p].arg * 1024 * 1024]]
    /\ UNCHANGED <<rows, seq, now, srv, restarts>>

\* (mutant) the buffer is kept when the handler returns.
memory_stress_release_kept(p) ==
    /\ Serving
    /\ req[p].pc = "memory_stress_allocated"
    /\ req' = [req EXCEPT ![p] =
                 [@ EXCEPT !.pc = "done", !.status = OK,
                           !.json = [allocated_bytes |-> req[p].held,
                                     allocated_mb |-> req[p].arg,
                                     timestamp |-> now]]]
    /\ UNCHANGED <<rows, seq, now, srv, restarts>>

\* The rest of memory_stress: allocated_bytes = data.len(), drop(data), and
\* the response.  No .await lies between the allocation and this step.
memory_stress_release(p) ==
    /\ Serving
    /\ req[p].pc = "memory_stress_allocated"
    /\ req' = [req EXCEPT ![p] =
                 [@ EXCEPT !.pc = "done", !.status = OK, !.held = 0,
                           !.json = [allocated_bytes |-> req[p].held,
                                     allocated_mb |-> req[p].arg,
                                     timestamp |-> now]]]
    /\ UNCHANGED <<rows, seq, now, srv, restarts>>

\* One run of the process: startup, then the requests it serves.
Next ==
    \/ InitCount
    \/ SeedInsert
    \/ Tick
    \/ \E p \in Procs : Arrive(p, "get_all_items", 0, NoPayload)
    \/ \E p \in Procs, k \in ItemIds : Arrive(p, "get_item", k, NoPayload)
    \/ \E p \in Procs, it \in Payloads : Arrive(p, "create_item", 0, it)
    \/ \E p \in Procs, k \in ItemIds, it \in Payloads : Arrive(p, "update_item", k, it)
    \/ \E p \in Procs, k \in ItemIds : Arrive(p, "delete_item", k, NoPayload)
    \/ \E p \in Procs : get_all_items(p)
    \/ \E p \in Procs : get_item(p)
    \/ \E p \in Procs : create_item_insert(p)
    \/ \E p \in Procs : create_item_select(p)
    \/ \E p \in Procs : update_item_check(p)
    \/ \E p \in Procs : update_item_write(p)
    \/ \E p \in Procs : update_item_select(p)
    \/ \E p \in Procs : delete_item_check(p)
    \/ \E p \in Procs : delete_item_write(p)

Spec == Init /\ [][Next]_vars

\* ------------------------------------------------- startup after startup
\* The table init_db fills when benchmark.db does not exist.
RECURSIVE SeedFrom(_, _, _)
SeedFrom(t, s, i) ==
    IF i > Len(sample_items) THEN t
    ELSE SeedFrom(InsertRow(t, s, sample_items[i], 0), NextRowId(t, s), i + 1)

SeededTable == SeedFrom(<<>>, 0, 1)

ValidPayload == CHOOSE it \in Payloads : ~Invalid(it)

\* Database files earlier runs of the process can leave behind, as
\* <<rows, seq>>: no file at all, and the seeded table after an update or a
\* create, with any of its rows deleted.
StoredTables ==
    LET full == { <<SeededTable, Len(sample_items)>>,
                  <<UpdateRow(SeededTable, 1, ValidPayload), Len(sample_items)>>,
                  <<InsertRow(SeededTable, Len(sample_items), ValidPayload, 0),
                    Len(sample_items) + 1>> }
    IN {<<<<>>, 0>>} \cup
       UNION { { <<[i \in D |-> f[1][i]], f[2]>> : D \in SUBSET DOMAIN f[1] } :
               f \in full }

InitStartup ==
    /\ \E st \in StoredTables :
          /\ rows = st[1]
          /\ seq = st[2]
    /\ now = 0
    /\ srv = [pc |-> "init_count", i |-> 0]
    /\ restarts = 0
    /\ req = [p \in Procs |-> IdleReq]

\* The process started again and again on the file it finds.
NextStartup ==
    \/ InitCount
    \/ SeedInsert
    \/ Restart
    \/ Tick

SpecStartup == InitStartup /\ [][NextStartup]_vars

\* ------------------------------------------------------ cpu_stress alone
\* a - 1 modulo Radix^Len(a)
SubOne(a) == AddLimbs(a, [k \in 1..Len(a) |-> Radix - 1])

\* a / d, for a small divisor d.
RECURSIVE RemFrom(_, _, _)
RemFrom(a, d, k) ==
    IF k > Len(a) THEN 0 ELSE (RemFrom(a, d, k + 1) * Radix + a[k]) % d

DivSmall(a, d) ==
    [k \in 1..Len(a) |-> (RemFrom(a, d, k + 1) * Radix + a[k]) \div d]

\* 0*0 + 1*1 + ... + (k-1)*(k-1) modulo 2^64, by the closed form
\* (k-1) k (2k-1) / 6 worked out in numbers wide enough not to wrap.
SumSquaresBelow(k) ==
    IF k = Zero THEN Zero
    ELSE LET w == Widen(k, 3 * Limbs + 2)
             w1 == SubOne(w)
             prod == MulLimbs(MulLimbs(w1, w), AddLimbs(w, w1))
         IN SubSeq(DivSmall(prod, 6), 1, Limbs)

\* The iteration counts followed: the small ones, those around the first sum
\* that passes 2^64 (3810779), those around the first square that passes 2^64
\* (2^32), and the largest ones.
CpuIterations ==
    { U64(n) : n \in 0..MaxLoopSteps }
    \cup { U64(3810778), U64(3810779), U64(3810780) }
    \cup { <<255, 255, 255, 255, 0, 0, 0, 0>>, <<0, 0, 0, 0, 1, 0, 0, 0>>,
           <<1, 0, 0, 0, 1, 0, 0, 0>>, <<2, 0, 0, 0, 1, 0, 0, 0>> }
    \cup { SubOne(AllOnes), AllOnes }

\* a - d, or 0 when d > a.
RECURSIVE Back(_, _)
Back(a, d) == IF d = 0 \/ a = Zero THEN a ELSE Back(SubOne(a), d - 1)

\* cpu_stress(iterations) with at most MaxLoopSteps turns of its loop left:
\* i has reached `at` and result is the sum of the squares below `at`.
CpuRunning(iterations, at) ==
    [IdleReq EXCEPT !.pc = "cpu_stress", !.kind = "cpu_stress",
                    !.arg = iterations,
                    !.loop = [i |-> at, result |-> SumSquaresBelow(at)]]

\* Two cpu_stress requests under way, each near the end of its loop (at its
\* start when iterations <= MaxLoopSteps).
InitCpu ==
    /\ rows = SeededTable
    /\ seq = Len(sample_items)
    /\ now = 0
    /\ srv = [pc |-> "serving", i |-> 0]
    /\ restarts = 0
    /\ \E n1, n2 \in CpuIterations, d1, d2 \in 0..MaxLoopSteps :
          req = [p \in Procs |->
                   IF p = 1 THEN CpuRunning(n1, Back(n1, d1))
                   ELSE IF p = 2 THEN CpuRunning(n2, Back(n2, d2))
                   ELSE IdleReq]

NextCpu == \E p \in Procs : cpu_stress(p)

SpecCpu == InitCpu /\ [][NextCpu]_vars

\* ------------------------------------------------- the service, layered
\* (mutant) the header is put on successful responses only.
add_process_time_header_on_success(p) ==
    /\ Serving
    /\ req[p].pc = "done"
    /\ req' = [req EXCEPT ![p] =
                 [@ EXCEPT !.pc = "sent",
                           !.x_process_time =
                               IF req[p].status = OK THEN <<now - req[p].start>>
                               ELSE @]]
    /\ UNCHANGED <<rows, seq, now, srv, restarts>>

\* add_process_time_header after next.run(request).await has returned the
\* handler's response: elapsed = start.elapsed(), headers_mut().insert(..)
\* puts the one value in place of any the response had.
add_process_time_header(p) ==
    /\ Serving
    /\ req[p].pc = "done"
    /\ req' = [req EXCEPT ![p] =
                 [@ EXCEPT !.pc = "sent",
                           !.x_process_time = <<now - req[p].start>>]]
    /\ UNCHANGED <<rows, seq, now, srv, restarts>>

\* add_process_time_header up to next.run(request).await: start is taken and
\* the router hands the request to its handler.
Enter(p, kind, id, payload, arg) ==
    /\ Serving
    /\ req[p].pc = "idle"
    /\ IF p = 1 THEN TRUE ELSE req[p - 1].pc # "idle"
    /\ req' = [req EXCEPT ![p] =
                 [IdleReq EXCEPT !.pc = kind, !.kind = kind, !.item_id = id,
                                 !.payload = payload, !.arg = arg,
                                 !.start = now]]
    /\ UNCHANGED <<rows, seq, now, srv, restarts>>

\* The positions at which a handler waits in an .await: a storage call or the
\* sleep of the echo handlers.
Awaiting ==
    {"get_all_items", "get_item", "create_item", "create_item_select",
     "update_item", "update_item_write", "update_item_select",
     "delete_item", "delete_item_write", "health_check",
     "db_benchmark_select", "echo_sleep"}

\* The request's future is not being polled: it waits in an .await, or it has
\* not been polled yet.
Suspended(r) ==
    \/ r.pc \in Awaiting
    \/ r.pc = r.kind /\ r.loop.i = Zero

\* The request is abandoned: its future is dropped where it is suspended.
Cancel(p) ==
    /\ Serving
    /\ Suspended(req[p])
    /\ req' = [req EXCEPT ![p].pc = "cancelled"]
    /\ UNCHANGED <<rows, seq, now, srv, restarts>>

\* ---------------------------------------------------- memory_stress alone
\* The server with a memory_stress request for any size up to MaxSizeMb, and
\* further ones for the sizes around the limit.
LimitSizesMb == {100, 101}

InitMemory ==
    /\ rows = SeededTable
    /\ seq = Len(sample_items)
    /\ now = 0
    /\ srv = [pc |-> "serving", i |-> 0]
    /\ restarts = 0
    /\ \E n \in 0..MaxSizeMb :
          req = [p \in Procs |->
                   IF p = 1
                   THEN [IdleReq EXCEPT !.pc = "memory_stress",
                                        !.kind = "memory_stress", !.arg = n]
                   ELSE IdleReq]

NextMemory ==
    \/ Tick
    \/ \E p \in Procs, n \in LimitSizesMb :
          Enter(p, "memory_stress", 0, NoPayload, n)
    \/ \E p \in Procs : memory_stress_alloc(p)
    \/ \E p \in Procs : memory_stress_release(p)
    \/ \E p \in Procs : add_process_time_header(p)
    \/ \E p \in Procs : Cancel(p)

SpecMemory == InitMemory /\ [][NextMemory]_vars

\* ------------------------------------------------------ the whole service
\* One request followed through the layers and its handler, on any table the
\* process can be serving: one it has just started on (init_db runs first), or
\* one that requests before this one have left behind.
InitService ==
    /\ \E st \in StoredTables, pc \in {"init_count", "serving"} :
          /\ pc = "serving" => st[2] > 0
          /\ rows = st[1]
          /\ seq = st[2]
          /\ srv = [pc |-> pc, i |-> 0]
    /\ now = 0
    /\ restarts = 0
    /\ req = [p \in Procs |-> IdleReq]

NextService ==
    \/ InitCount
    \/ SeedInsert
    \/ Tick
    \/ Enter(1, "read_root", 0, NoPayload, 0)
    \/ \E q \in {None, Some("x")} : Enter(1, "read_item", 0, NoPayload, <<7, q>>)
    \/ Enter(1, "health_check", 0, NoPayload, 0)
    \/ Enter(1, "echo_post", 0, NoPayload, <<"ping", Some("d")>>)
    \/ Enter(1, "echo_get", 0, NoPayload, <<"ping">>)
    \/ Enter(1, "get_all_items", 0, NoPayload, 0)
    \/ \E k \in ItemIds : Enter(1, "get_item", k, NoPayload, 0)
    \/ \E it \in Payloads : Enter(1, "create_item", 0, it, 0)
    \/ \E k \in ItemIds, it \in Payloads : Enter(1, "update_item", k, it, 0)
    \/ \E k \in ItemIds : Enter(1, "delete_item", k, NoPayload, 0)
    \/ \E n \in 0..MaxCount : Enter(1, "db_benchmark_select", 0, NoPayload, n)
    \/ \E n \in 0..MaxLoopSteps : Enter(1, "cpu_stress", 0, NoPayload, U64(n))
    \/ \E n \in LimitSizesMb : Enter(1, "memory_stress", 0, NoPayload, n)
    \/ \E p \in Procs : read_root(p)
    \/ \E p \in Procs : read_item(p)
    \/ \E p \in Procs : health_check(p)
    \/ \E p \in Procs : echo_sleep(p)
    \/ \E p \in Procs : echo_wake(p)
    \/ \E p \in Procs : get_all_items(p)
    \/ \E p \in Procs : get_item(p)
    \/ \E p \in Procs : create_item_insert(p)
    \/ \E p \in Procs : create_item_select(p)
    \/ \E p \in Procs : update_item_check(p)
    \/ \E p \in Procs : update_item_write(p)
    \/ \E p \in Procs : update_item_select(p)
    \/ \E p \in Procs : delete_item_check(p)
    \/ \E p \in Procs : delete_item_write(p)
    \/ \E p \in Procs : db_benchmark_select(p)
    \/ \E p \in Procs : cpu_stress(p)
    \/ \E p \in Procs : memory_stress_alloc(p)
    \/ \E p \in Procs : memory_stress_release(p)
    \/ \E p \in Procs : add_process_time_header(p)
    \/ \E p \in Procs : Cancel(p)

SpecService == InitService /\ [][NextService]_vars

\* ================================================================= claims
Done(p, kind) == req[p].pc = "done" /\ req[p].kind = kind

Succeeded(p, kind) == Done(p, kind) /\ req[p].status = OK

\* The claims' own words for a payload that must be refused: an empty name
\* or a negative price.
BadPayload(it) == it.name = "" \/ it.price < 0

\* The names of the rows, in id order.
Names(t) == [i \in 1..Len(SelectAll(t)) |-> SelectAll(t)[i].name]

\* C1: concurrent create_item requests that succeed are answered with
\* pairwise different ids, and when every create_item request has succeeded
\* (and no delete_item request was made) the table holds the sample rows plus
\* one row per create: each returned id names a row, none is lost.
NoLostCreates ==
    LET creates == {p \in Procs : req[p].kind = "create_item"} IN
    /\ \A p, q \in creates :
          (p # q /\ Succeeded(p, "create_item") /\ Succeeded(q, "create_item"))
             => req[p].body[1].id # req[q].body[1].id
    /\ ( /\ Serving
         /\ \A p \in creates : Succeeded(p, "create_item")
         /\ \A p \in Procs : req[p].kind # "delete_item" )
       => /\ Cardinality(DOMAIN rows) = Len(sample_items) + Cardinality(creates)
          /\ \A p \in creates : req[p].body[1].id \in DOMAIN rows

\* C1 witness: every request was a create_item and succeeded, and the request
\* that arrived first was given the larger id: the two handlers overlapped.
ConcurrentCreatesDone ==
    /\ \A p \in Procs : Succeeded(p, "create_item")
    /\ req[1].body[1].id > req[2].body[1].id

\* C2: a get_item on the id a successful create_item returned, made when no
\* UPDATE or DELETE has touched that row since the create's response and
\* whose storage call does not fail, answers 200 with a record equal to the
\* create response in id, name, description, price and created_at.
CreateThenGet ==
    [][\A p, q \in Procs :
         ( /\ Succeeded(q, "create_item")
           /\ req[p].pc = "get_item"
           /\ req'[p].pc = "done"
           /\ req[p].item_id = req[q].body[1].id
           /\ req[p].item_id \in DOMAIN rows
           /\ rows[req[p].item_id].ver = req[q].body[1].ver
           /\ ~req'[p].fault )
         => /\ req'[p].status = OK
            /\ Columns(req'[p].body[1]) = Columns(req[q].body[1])]_vars

\* C2 witness: a create_item and a get_item on the id it returned have both
\* answered 200 with the same record, read after the clock had moved on.
CreateThenGetDone ==
    \E p, q \in Procs :
        /\ Succeeded(q, "create_item")
        /\ Succeeded(p, "get_item")
        /\ req[p].item_id = req[q].body[1].id
        /\ Columns(req[p].body[1]) = Columns(req[q].body[1])
        /\ req[q].body[1].created_at < now

\* The first step of an update_item handler on an id that has no row, none of
\* whose storage calls fails.
UpdateMissingStep(p) ==
    /\ req[p].pc = "update_item"
    /\ req'[p] # req[p]
    /\ req[p].item_id \notin DOMAIN rows
    /\ ~req'[p].fault

\* C3 as stated: update_item on an id that has no row answers 404 whatever
\* the payload is.
UpdateMissingAlwaysNotFound ==
    [][\A p \in Procs :
         UpdateMissingStep(p)
            => req'[p].pc = "done" /\ req'[p].status = NOT_FOUND]_vars

\* C3 amended: update_item on an id that has no row answers 404 when the
\* payload is valid, and 400 when the name is empty or the price negative.
UpdateMissingNotFoundWhenValid ==
    [][\A p \in Procs :
         UpdateMissingStep(p)
            => /\ req'[p].pc = "done"
               /\ req'[p].status = IF BadPayload(req[p].payload)
                                   THEN BAD_REQUEST ELSE NOT_FOUND]_vars

\* C3 witness: an update_item with a valid payload on an id without a row has
\* answered 404, and one with an invalid payload on such an id 400.
UpdateMissingAnswered ==
    \E p, q \in Procs :
        /\ Done(p, "update_item") /\ Done(q, "update_item")
        /\ req[p].item_id \notin DOMAIN rows /\ req[q].item_id \notin DOMAIN rows
        /\ ~BadPayload(req[p].payload) /\ req[p].status = NOT_FOUND
        /\ BadPayload(req[q].payload) /\ req[q].status = BAD_REQUEST
        /\ seq = Len(sample_items)

\* C4: once a delete_item on an id has answered 200, the existence check of
\* a later delete_item on the same id (when the check itself does not fail)
\* ends the handler with 404 and leaves the table as it is.
DeleteTwiceNotFound ==
    [][\A p, q \in Procs :
         ( /\ Succeeded(q, "delete_item")
           /\ req[p].pc = "delete_item"
           /\ req'[p] # req[p]
           /\ req[p].item_id = req[q].item_id
           /\ ~req'[p].fault )
         => /\ req'[p].pc = "done"
            /\ req'[p].status = NOT_FOUND
            /\ rows' = rows]_vars

\* C4 witness: two delete_item requests on the same id have answered, the
\* second to arrive with 404 after the first had answered 200.
DeletedTwice ==
    \E p, q \in Procs :
        /\ q < p
        /\ Succeeded(q, "delete_item")
        /\ Done(p, "delete_item")
        /\ req[p].item_id = req[q].item_id
        /\ req[p].status = NOT_FOUND
        /\ req[p].calls = 1

\* C5: every row of the table has a non-empty name and a price >= 0.
PersistedItemsValid ==
    \A k \in DOMAIN rows : rows[k].name # "" /\ rows[k].price >= 0

\* C5 witness: requests with an invalid payload have been answered and the
\* table holds a row written by a create_item or update_item.
InvalidRefusedValidStored ==
    /\ \E p \in Procs : req[p].pc = "done" /\ BadPayload(req[p].payload)
                        /\ req[p].kind \in {"create_item", "update_item"}
    /\ \E k \in DOMAIN rows : rows[k].name = ValidPayload.name

\* C6: the UPDATE of update_item on id k sets name, description and price of
\* row k to the payload's and changes nothing else: id and created_at of row
\* k, every other row, and the set of ids stay as they were.
UpdateFrame ==
    [][\A p \in Procs :
         (req[p].pc = "update_item_write" /\ req'[p].pc = "update_item_select")
         => LET k == req[p].item_id IN
            /\ DOMAIN rows' = DOMAIN rows
            /\ seq' = seq
            /\ \A j \in DOMAIN rows : j # k => rows'[j] = rows[j]
            /\ k \in DOMAIN rows =>
                 /\ rows'[k].id = rows[k].id
                 /\ rows'[k].created_at = rows[k].created_at
                 /\ rows'[k].name = req[p].payload.name
                 /\ rows'[k].description = req[p].payload.description
                 /\ rows'[k].price = req[p].payload.price]_vars

\* C6 witness: an update_item has answered 200 with the payload's name and the
\* row's original created_at, later than that time.
UpdatedInPlace ==
    \E p \in Procs :
        /\ Succeeded(p, "update_item")
        /\ req[p].wrote >= 1
        /\ req[p].body[1].name = req[p].payload.name
        /\ req[p].body[1].created_at < now
        /\ Cardinality(DOMAIN rows) >= 2

\* C7: init_db on a non-empty table changes no row and inserts none; init_db
\* that seeds (the table was empty) ends with exactly three rows, named
\* Laptop, Mouse and Keyboard.
SeedingIdempotent ==
    [][ /\ (srv.pc = "init_count" /\ DOMAIN rows # {})
           => (rows' = rows /\ seq' = seq /\ srv'.pc # "seed")
        /\ (srv.pc = "init_count" /\ DOMAIN rows = {} /\ srv'.pc = "serving")
           => FALSE
        /\ (srv.pc = "seed" /\ srv'.pc = "serving")
           => Names(rows') = <<"Laptop", "Mouse", "Keyboard">> ]_vars

\* C7 witness: the process has been started three times on a file that did
\* not exist at first, and serves the three sample rows.
SeededOnceStartedAgain ==
    /\ Serving
    /\ restarts = 2
    /\ seq = Len(sample_items)
    /\ Names(rows) = <<"Laptop", "Mouse", "Keyboard">>

\* C8 as stated: a request one of whose storage calls failed is answered
\* 500, never 404; a create_item or update_item with an invalid payload is
\* answered 400.
FailureMapping ==
    \A p \in Procs :
        req[p].pc = "done" =>
            /\ req[p].fault => req[p].status = INTERNAL_SERVER_ERROR
            /\ (req[p].kind \in {"create_item", "update_item"}
                  /\ BadPayload(req[p].payload)) => req[p].status = BAD_REQUEST

\* C9: the first step of a create_item or update_item whose payload has an
\* empty name or a negative price ends the handler with 400, with no storage
\* call made and the table (and its id counter) untouched.
InvalidRejectedBeforeStorage ==
    [][\A p \in Procs :
         ( /\ req[p].pc \in {"create_item", "update_item"}
           /\ BadPayload(req[p].payload)
           /\ req'[p] # req[p] )
         => /\ req'[p].pc = "done"
            /\ req'[p].status = BAD_REQUEST
            /\ req'[p].calls = 0
            /\ rows' = rows
            /\ seq' = seq]_vars

\* C9 witness: an update_item on an existing row with an empty name and a
\* create_item with a negative price have both been answered 400.
InvalidRejected ==
    \E p, q \in Procs :
        /\ Done(p, "update_item") /\ req[p].payload.name = ""
        /\ req[p].item_id \in DOMAIN rows
        /\ req[p].status = BAD_REQUEST /\ req[p].calls = 0
        /\ Done(q, "create_item") /\ req[q].payload.price < 0
        /\ req[q].status = BAD_REQUEST /\ req[q].calls = 0

\* C10: the row an update_item returns was read after the handler's own
\* UPDATE took effect: its version is at least the version that UPDATE gave
\* the row, and when it is that very version the row carries the payload.
ReadAfterWrite ==
    \A p \in Procs :
        Succeeded(p, "update_item") =>
            /\ req[p].wrote >= 1
            /\ req[p].body[1].ver >= req[p].wrote
            /\ req[p].body[1].ver = req[p].wrote =>
                 /\ req[p].body[1].name = req[p].payload.name
                 /\ req[p].body[1].description = req[p].payload.description
                 /\ req[p].body[1].price = req[p].payload.price

\* C10 witness: an update_item has answered 200 with a row that another
\* request's UPDATE had written after its own.
ReadSawLaterWrite ==
    \E p \in Procs :
        /\ Succeeded(p, "update_item")
        /\ req[p].body[1].ver > req[p].wrote
        /\ req[p].wrote >= 1

\* C17 as stated: no two delete_item requests on the same id both answer with
\* the success message.
AtMostOneDeleteSucceeds ==
    \A p, q \in Procs :
        (p # q /\ req[p].item_id = req[q].item_id)
           => ~(Succeeded(p, "delete_item") /\ Succeeded(q, "delete_item"))

\* C18 as stated: in a run in which no storage call has failed, no create_item
\* and no update_item is answered 500.
NoServerErrorWithoutFailure ==
    (\A q \in Procs : ~req[q].fault)
       => \A p \in Procs :
             (req[p].pc = "done" /\ req[p].kind \in {"create_item", "update_item"})
                => req[p].status # INTERNAL_SERVER_ERROR

\* C12: cpu_stress answers with result equal to the sum of i*i for i below
\* iterations, taken modulo 2^64; so two requests with the same iterations get
\* the same result, and iterations = 0 gets 0.
CpuChecksum ==
    \A p \in Procs :
        Done(p, "cpu_stress") =>
            /\ req[p].status = OK
            /\ req[p].json.iterations = req[p].arg
            /\ req[p].json.result = SumSquaresBelow(req[p].arg)
            /\ req[p].arg = Zero => req[p].json.result = Zero
            /\ \A q \in Procs :
                  (Done(q, "cpu_stress") /\ req[q].arg = req[p].arg)
                     => req[q].json.result = req[p].json.result

\* C12 witness: cpu_stress has answered for 2^32 + 2 iterations, past the
\* squares and the sums that exceed 2^64, and for 0 iterations.
CpuWrapped ==
    \E p, q \in Procs :
        /\ Done(p, "cpu_stress") /\ req[p].arg = <<2, 0, 0, 0, 1, 0, 0, 0>>
        /\ req[p].json.result = <<1, 0, 0, 128, 87, 85, 85, 213>>
        /\ Done(q, "cpu_stress") /\ req[q].arg = Zero

\* The handler of request p, of the given kind, has returned its response.
Answered(p, kind) == req[p].kind = kind /\ req[p].pc \in {"done", "sent"}

\* C11: memory_stress answers 200 for size_mb in 0..100, with allocated_bytes =
\* size_mb * 1024 * 1024 and allocated_mb = size_mb; for size_mb > 100 it
\* answers 400 and at no point holds a buffer.
MemoryStressContract ==
    \A p \in Procs :
        req[p].kind = "memory_stress" =>
            /\ (req[p].arg > 100) => req[p].held = 0
            /\ (req[p].pc = "memory_stress_allocated")
                  => req[p].held = req[p].arg * 1024 * 1024
            /\ Answered(p, "memory_stress") =>
                  IF req[p].arg <= 100
                  THEN /\ req[p].status = OK
                       /\ req[p].json.allocated_bytes = req[p].arg * 1024 * 1024
                       /\ req[p].json.allocated_mb = req[p].arg
                  ELSE /\ req[p].status = BAD_REQUEST
                       /\ req[p].json = NoJson

\* C11 witness: memory_stress(100) has answered with 104857600 bytes and
\* memory_stress(101) has been refused.
MemoryLimitBothSides ==
    \E p, q \in Procs :
        /\ Answered(p, "memory_stress") /\ req[p].arg = 100
        /\ req[p].status = OK /\ req[p].json.allocated_bytes = 104857600
        /\ Answered(q, "memory_stress") /\ req[q].arg = 101
        /\ req[q].status = BAD_REQUEST

\* C15: a memory_stress request that has returned, or that was abandoned where
\* it was suspended, holds no buffer.
NoBufferOutlivesRequest ==
    \A p \in Procs :
        (req[p].kind = "memory_stress" /\ req[p].pc \in {"done", "sent", "cancelled"})
           => req[p].held = 0

\* C15 witness: one memory_stress request has allocated, released and
\* answered; another was abandoned.
ReleasedAndAbandoned ==
    \E p, q \in Procs :
        /\ req[p].kind = "memory_stress" /\ req[p].pc = "sent"
        /\ req[p].json # NoJson /\ req[p].json.allocated_bytes > 0
        /\ req[q].kind = "memory_stress" /\ req[q].pc = "cancelled"

\* C13: a response that leaves the service carries exactly one x-process-time
\* value, a non-negative elapsed time; the value is put on only by the step
\* that follows the handler's return, that step leaves status and body as the
\* handler produced them, and a response that has left is not touched again.
TimingHeaderOnce ==
    [][\A p \in Procs :
          /\ req'[p].pc = "sent" =>
                /\ Len(req'[p].x_process_time) = 1
                /\ req'[p].x_process_time[1] >= 0
          /\ req'[p].x_process_time # req[p].x_process_time =>
                /\ req[p].pc = "done"
                /\ req[p].x_process_time = <<>>
          /\ (req[p].pc = "done" /\ req'[p] # req[p]) =>
                /\ req'[p].pc = "sent"
                /\ req'[p].status = req[p].status
                /\ req'[p].body = req[p].body
                /\ req'[p].json = req[p].json
                /\ req'[p].message = req[p].message
          /\ req[p].pc = "sent" => req'[p] = req[p]]_vars

\* C13 witness: a 500 has left the service with the header, one tick after
\* the request came in.
ErrorSentWithHeader ==
    \E p \in Procs :
        /\ req[p].pc = "sent"
        /\ req[p].status = INTERNAL_SERVER_ERROR
        /\ req[p].x_process_time = <<1>>

\* C14: health_check answers 200 with status "healthy" whatever the probe did,
\* and database is "connected" when the probe succeeded, "disconnected" when
\* it failed.
HealthAlwaysHealthy ==
    \A p \in Procs :
        Answered(p, "health_check") =>
            /\ req[p].status = OK
            /\ req[p].json.status = "healthy"
            /\ req[p].calls = 1
            /\ req[p].json.database =
                  IF req[p].fault THEN "disconnected" ELSE "connected"

\* C14 witness: health_check has answered after a failed probe.
HealthyWhileDisconnected ==
    \E p \in Procs :
        /\ Answered(p, "health_check")
        /\ req[p].fault
        /\ req[p].json.database = "disconnected"

\* C16: a get_all_items whose storage call did not fail answers 200 with every
\* row of the table exactly once, in strictly ascending order of id; on an
\* empty table that is the empty sequence.
ListAllAscending ==
    [][\A p \in Procs :
          (req[p].pc = "get_all_items" /\ req'[p].pc = "done") =>
              IF req'[p].fault
              THEN req'[p].status = INTERNAL_SERVER_ERROR
              ELSE LET body == req'[p].body IN
                   /\ req'[p].status = OK
                   /\ Len(body) = Cardinality(DOMAIN rows)
                   /\ \A i \in 1..Len(body) :
                         /\ body[i].id \in DOMAIN rows
                         /\ Columns(body[i]) = Columns(rows[body[i].id])
                   /\ \A i, j \in 1..Len(body) :
                         i < j => body[i].id < body[j].id
                   /\ rows = <<>> => body = <<>>]_vars

\* C16 witness: get_all_items has listed a table of several rows, after a
\* create and a delete.
ListedAfterWrites ==
    \E p \in Procs :
        /\ Answered(p, "get_all_items")
        /\ req[p].status = OK
        /\ Len(req[p].body) >= 2
        /\ Cardinality(DOMAIN rows) < seq
        /\ seq > Len(sample_items)

\* C19: every id that enters the table, by create_item or by seeding, is
\* greater than every id assigned before it (the ids still in the table and
\* the ids of deleted rows, all at most seq), and the record of the largest
\* id assigned never goes down.
IdsNeverReused ==
    [][/\ seq' >= seq
       /\ \A k \in DOMAIN rows : k <= seq
       /\ \A k \in DOMAIN rows' \ DOMAIN rows :
             /\ k > seq
             /\ \A j \in DOMAIN rows : k > j
             /\ k <= seq'
       /\ \A p \in Procs :
             (req[p].pc = "create_item" /\ req'[p].pc = "create_item_select")
                => req'[p].item_id > seq]_vars

\* C19 witness: a create has been answered with an id whose predecessor was
\* assigned and deleted before.
CreatedAfterDelete ==
    \E p \in Procs :
        /\ Answered(p, "create_item")
        /\ req[p].status = OK
        /\ req[p].item_id \in DOMAIN rows
        /\ (req[p].item_id - 1) \notin DOMAIN rows

\* The requests that only read or only compute.
ReadOnlyKinds ==
    {"get_all_items", "get_item", "health_check", "db_benchmark_select",
     "echo_post", "echo_get", "cpu_stress", "memory_stress", "read_root",
     "read_item"}

\* C20: no step of a read-only or synthetic request changes the table or its
\* id counter, and a db_benchmark_select whose query did not fail reports
\* rows_fetched = min(count, number of rows).
ReadOnlyFrame ==
    [][\A p \in Procs :
          /\ (req'[p] # req[p] /\ req'[p].kind \in ReadOnlyKinds)
                => (rows' = rows /\ seq' = seq)
          /\ (req[p].pc = "db_benchmark_select" /\ req'[p].pc = "done"
                /\ ~req'[p].fault)
                => /\ req'[p].status = OK
                   /\ req'[p].json.rows_fetched <= req[p].arg
                   /\ req'[p].json.rows_fetched <= Cardinality(DOMAIN rows)
                   /\ \/ req'[p].json.rows_fetched = req[p].arg
                      \/ req'[p].json.rows_fetched = Cardinality(DOMAIN rows)]_vars

\* C20 witness: db_benchmark_select was asked for more rows than the table has
\* and has reported the table's count.
FetchedFewerThanAsked ==
    \E p \in Procs :
        /\ Answered(p, "db_benchmark_select")
        /\ req[p].status = OK
        /\ req[p].json.rows_fetched = Cardinality(DOMAIN rows)
        /\ req[p].json.rows_fetched > 0
        /\ req[p].json.rows_fetched < req[p].arg

====
